---- MODULE Spec2Model ----
(***************************************************************************)
(* The sync connectors of pos/skills (gcal, github, gmail, linear): one    *)
(* run of one connector's sync.py main(), from the POS_DIR check to the    *)
(* process exit, together with the snapshot file it writes under           *)
(* POS_DIR/STATE.  What a reader of that file finds at some moment is the  *)
(* value of `file` in the state of that moment.                            *)
(*                                                                         *)
(* Text is modelled by what the parsers see of it: a command's stdout is a *)
(* record of the JSON value a scan finds in it, of whether the whole text  *)
(* is that value, and of its tabular rows.  Timestamps (`start`,           *)
(* `updatedAt`) are naturals ordered like the ISO-8601 strings they stand  *)
(* for, 0 standing for the empty string.                                   *)
(***************************************************************************)
EXTENDS Integers, Sequences, FiniteSets, TLC

\* ------------------------------------------------------------------ bounds

\* Longest list (records of one JSON array, rows of one table) a command prints.
MaxRecs == 2
\* Longest output, in lines, of the mail and issue commands.
MaxLines == 3
\* Longest list of gathered items the aggregation is run on in SpecAgg.
MaxGathered == 4
\* Number of writes json.dump splits the document into.
DumpChunks == 2

\* ----------------------------------------------------------------- helpers

\* All sequences over S of length at most n.
SeqUpTo(S, n) == UNION {[1..k -> S] : k \in 0..n}

Range(s) == {s[i] : i \in 1..Len(s)}

Min(a, b) == IF a < b THEN a ELSE b

\* ------------------------------------------------------- python-side values

\* Values of the duck-typed documents, tagged by their Python type.
None == [t |-> "none"]
IntV(n) == [t |-> "int", v |-> n]
StrV(s) == [t |-> "str", v |-> s]
ListV(s) == [t |-> "list", v |-> s]

\* A JSON object a command prints at top level: its `events` and `items`
\* members (None when absent) and whether it has any other member.
TopDict(ev, it, other) == [t |-> "dict", events |-> ev, items |-> it, other |-> other]

\* bool(x), as `x or default` and `if not x` evaluate it.
Truthy(x) ==
  CASE x.t = "none" -> FALSE
    [] x.t = "int" -> x.v # 0
    [] x.t = "str" -> x.v # ""
    [] x.t = "list" -> x.v # <<>>
    [] x.t = "dict" -> x.other \/ x.events.t # "none" \/ x.items.t # "none"

\* `a or b`
Or(a, b) == IF Truthy(a) THEN a ELSE b

\* int(x) raises ValueError: parse_frontmatter stores a value as an int when it
\* is all digits and as the raw string otherwise, and int() of a string that
\* is no number raises.  The string values of the model are no numbers, so
\* the tunables int() yields are naturals.
IntRaises(x) == x.t = "str"

\* The exit status of a process still running.
NoExit == -1

\* A mapping with key k set to v (d[k] = v on a dict).
Put(d, k, v) == [x \in DOMAIN d \cup {k} |-> IF x = k THEN v ELSE d[x]]

EmptyDict == [x \in {} |-> 0]

\* ------------------------------------------------------------------ events

Progress(msg) == [type |-> "progress", message |-> msg]
Error(msg) == [type |-> "error", message |-> msg, details |-> None]
ErrorDetails(msg, code, stderr) ==
  [type |-> "error", message |-> msg, details |-> [code |-> code, stderr |-> stderr]]
Artifact(path) == [type |-> "artifact", path |-> path]
Result(data) == [type |-> "result", ok |-> TRUE, data |-> data]

\* ------------------------------------------------------- external commands

\* What subprocess.run(..., check=True) does: FileNotFoundError when the
\* executable is not on PATH, CalledProcessError on a non-zero exit, or the
\* completed process with its stdout.
NotFound == [k |-> "notfound"]
CmdFailed(code, stderr) == [k |-> "failed", code |-> code, stderr |-> stderr]
CmdOk(out) == [k |-> "ok", stdout |-> out]

Failures == {CmdFailed(1, ""), CmdFailed(2, "boom")}

\* An entry of the log of commands run: the command line and how it ended.
Ran(cmd, o) ==
  [cmd |-> cmd, k |-> o.k,
   code |-> IF o.k = "failed" THEN o.code ELSE 0,
   stderr |-> IF o.k = "failed" THEN o.stderr ELSE ""]

\* --------------------------------------------------------------- the state

VARIABLES
  conn,               \* the connector whose sync.py runs
  pc,                 \* where main() is
  pos_dir,            \* whether POS_DIR is set in the environment
  prefs,              \* what parse_frontmatter returned
  events,             \* the events emitted on stdout, in order
  exit_status,        \* the exit status of the process, NoExit while it runs
  invoked,            \* the external commands run so far, in order
  file,               \* the snapshot file at STATE/<conn>.json
  previous,           \* that file as it was when the run began
  accounts,           \* gcal: the accounts looped over; github: the logins of `gh auth status`
  idx,                \* the index of the loop main() is in
  all_events,         \* gcal: the events gathered, in gathering order
  per_account,        \* gcal: account -> number of events it contributed
  per_account_errors, \* gcal: account -> the command failure recorded for it
  per_account_debug,  \* gcal: the accounts with a parse_error debug entry
  raw_out,            \* the stdout of the last command that completed and was parsed
  notifications,      \* github: the normalized notifications
  notifications_error,\* github: the error of the /notifications call, None without
  items,              \* github: the items gathered, in gathering order
  items_errors,       \* github: the keys of items_errors ("prs:<login>", "tracked:<repo>")
  state               \* the `state` document main() builds and dumps

run == <<conn, previous, pc, pos_dir, prefs, events, exit_status, invoked>>
disk == <<file>>
gcalv == <<all_events, per_account, per_account_errors, per_account_debug>>
outv == <<raw_out>>
ghv == <<notifications, notifications_error, items, items_errors>>
vars == <<run, disk, accounts, idx, gcalv, ghv, state, outv>>

Connectors == {"gcal", "github", "gmail", "linear"}

\* --------------------------------------------------------- the snapshot file

\* The file holds the first n of the writes of a document: gen says which
\* document ("none": no file, "prev": the document an earlier run left,
\* "new": the document of this run).  json.dump writes DumpChunks chunks
\* and main() then writes the final newline.
TotalWrites == DumpChunks + 1
NoFile == [gen |-> "none", n |-> 0]
PrevFile == [gen |-> "prev", n |-> TotalWrites]
Complete(f) == f.gen # "none" /\ f.n = TotalWrites

\* An unhandled exception: Python prints the traceback on stderr and the
\* process exits with status 1; nothing is emitted on stdout.
Crash ==
  /\ pc' = "done"
  /\ exit_status' = 1
  /\ UNCHANGED <<conn, previous, pos_dir, prefs, events, invoked>>

\* The same after the events evs were emitted.
CrashAfter(evs) ==
  /\ events' = events \o evs
  /\ pc' = "done"
  /\ exit_status' = 1
  /\ UNCHANGED <<conn, previous, pos_dir, prefs>>

\* The run goes on at `next` after the events evs were emitted.
Goto(next, evs) ==
  /\ events' = events \o evs
  /\ pc' = next
  /\ UNCHANGED <<conn, previous, pos_dir, prefs, exit_status>>

\* emit(e); return rc
EmitReturn(e, rc) ==
  /\ events' = Append(events, e)
  /\ pc' = "done"
  /\ exit_status' = rc
  /\ UNCHANGED <<conn, previous, pos_dir, prefs, invoked>>

\* pos_dir = os.environ.get('POS_DIR'); if not pos_dir: emit error, return 1
CheckEnv ==
  /\ pc = "env"
  /\ IF pos_dir
       THEN pc' = "config" /\ UNCHANGED <<conn, previous, pos_dir, prefs, events, exit_status, invoked>>
       ELSE EmitReturn(Error("POS_DIR not set"), 1)
  /\ UNCHANGED <<disk, accounts, idx, gcalv, ghv, state, outv>>

\* ------------------------------------------------------------ configuration

\* The frontmatter documents parse_frontmatter can return, per connector: a key
\* is absent (None), an int (an all-digit value), a string, or a list of
\* strings.  Of the int() conversions of main() the model keeps one per
\* connector; the others convert the same way.
AccountLists == {<<>>, <<"A">>, <<"A", "B">>, <<"B", "A">>, <<"A", "A">>, <<"", "A">>}
Tunables == {None, IntV(1), StrV("soon")}

GcalPrefs ==
  {p \in [accounts : {None, StrV("A")} \cup {ListV(l) : l \in AccountLists},
          account : {None, StrV("A")},
          max_events : Tunables] :
     Truthy(p.account) => p.accounts.t = "none"}

GithubPrefs ==
  [max_items : Tunables,
   tracked_repos : {None, StrV("r1"), ListV(<<"r1">>), ListV(<<"", "r1">>)}]

GmailPrefs == [account : {None, StrV("A")}, max_threads : Tunables]

LinearPrefs == [assignee : {None, StrV("me")}, limit : Tunables, issues_js : BOOLEAN]

PrefsOf(c) ==
  CASE c = "gcal" -> GcalPrefs
    [] c = "github" -> GithubPrefs
    [] c = "gmail" -> GmailPrefs
    [] c = "linear" -> LinearPrefs

NoPrefs == [loaded |-> FALSE]

\* prefs = parse_frontmatter(skill_md): open() raises when SKILL.md is missing
\* or unreadable, and nothing catches it.
LoadConfig ==
  /\ pc = "config"
  /\ \/ Crash
     \/ /\ prefs' \in PrefsOf(conn)
        /\ pc' = "prefs"
        /\ UNCHANGED <<conn, previous, pos_dir, events, exit_status, invoked>>
  /\ UNCHANGED <<disk, accounts, idx, gcalv, ghv, state, outv>>

\* ----------------------------------------------------------------- sorting

RECURSIVE InsertAsc(_, _, _)
\* s, sorted, with e put after every element whose key k is <= e's.
InsertAsc(s, e, i) ==
  IF i > Len(s) THEN Append(s, e)
  ELSE IF s[i].start > e.start
    THEN SubSeq(s, 1, i - 1) \o <<e>> \o SubSeq(s, i, Len(s))
    ELSE InsertAsc(s, e, i + 1)

RECURSIVE SortByStart(_)
\* list.sort(key=start_key): stable, ascending by str(e.get('start') or '').
SortByStart(s) ==
  IF s = <<>> THEN <<>>
  ELSE InsertAsc(SortByStart(SubSeq(s, 1, Len(s) - 1)), s[Len(s)], 1)

\* ------------------------------------------------------ gcal: command output

\* A raw event object of the command's JSON.
RawEvent(id, eventId, start) == [t |-> "dict", id |-> id, eventId |-> eventId, start |-> start]

RawEvents ==
  {RawEvent("e1", "", 1), RawEvent("e1", "", 2), RawEvent("e2", "", 1), RawEvent("", "", 1)}

\* The elements of a JSON array: event objects, and a number.
Elements == RawEvents \cup {IntV(1)}

JsonLists == {ListV(l) : l \in SeqUpTo(Elements, MaxRecs)}

JsonDicts ==
  {TopDict(None, None, FALSE), TopDict(None, None, TRUE)}
    \cup {TopDict(ListV(l), None, FALSE) : l \in SeqUpTo(RawEvents, 1)}
    \cup {TopDict(None, ListV(<<e>>), FALSE) : e \in RawEvents}

\* A row of the tabular output: its number of tab-separated columns and its
\* first two columns.
Rows == {[ncols |-> 4, id |-> "e1", start |-> 1], [ncols |-> 4, id |-> "", start |-> 1],
         [ncols |-> 3, id |-> "e1", start |-> 1]}

\* The stdout of `gccli <account> events`, stripped, as the parsers see it:
\*   embedded: the first JSON value that decodes at a `[` or `{` of the text,
\*             None when none does;
\*   whole:    the text as a whole is that JSON value;
\*   sentinel: the text is "no events" in some letter case;
\*   table:    the rows under an ID/START/END/SUMMARY header line, None when
\*             the first non-empty line is no such header;
\*   chars, errchars: the number of characters of the stripped stdout and
\*             stderr of the process (a few, unless the output is Long).
Stdout(embedded, whole, sentinel, table) ==
  [embedded |-> embedded, whole |-> whole, sentinel |-> sentinel, table |-> table,
   chars |-> 9, errchars |-> 0]

\* The number of characters of stdout and of stderr a debug entry keeps.
HeadChars == 2000

\* HeadOf gone wrong: the text kept whole.
HeadWhole(n) == n

\* text[:2000], by its length.
HeadOf(n) == IF n < HeadChars THEN n ELSE HeadChars

\* The same output with more text on stdout and stderr than a debug entry
\* keeps.
Long(out) == [out EXCEPT !.chars = HeadChars + 1, !.errchars = HeadChars + 1]

GcalStdouts ==
  {Stdout(j, w, FALSE, None) : j \in JsonLists \cup JsonDicts, w \in BOOLEAN}
    \cup {Stdout(None, FALSE, TRUE, None), Stdout(None, FALSE, FALSE, None),
          Long(Stdout(None, FALSE, FALSE, None))}
    \cup {Stdout(j, FALSE, FALSE, ListV(r)) :
            j \in {None, ListV(<<IntV(1)>>)}, r \in SeqUpTo(Rows, MaxRecs)}

\* extract_json(text): the first value raw_decode yields at a bracket.
extract_json(out) == out.embedded

\* try_parse_json(text): json.loads of the whole text when it starts with a
\* bracket.
try_parse_json(out) == IF out.whole THEN out.embedded ELSE None

\* A normalized event.
Event(id, start, account) == [id |-> id, start |-> start, account |-> account]

\* normalize_event gone wrong: eventId tried before id.
normalize_eventIdFirst(raw, account) ==
  LET eid == IF raw.eventId # "" THEN raw.eventId ELSE raw.id
  IN IF eid = "" THEN None ELSE [t |-> "event", v |-> Event(eid, raw.start, account)]

\* normalize_event(raw, account, calendar_id): None for a record without id.
normalize_event(raw, account) ==
  LET eid == IF raw.id # "" THEN raw.id ELSE raw.eventId
  IN IF eid = "" THEN None ELSE [t |-> "event", v |-> Event(eid, raw.start, account)]

RECURSIVE NormalizeAll(_, _, _)
\* The loop of parse_events over an array: dict elements, normalized, those
\* without identity dropped.
NormalizeAll(arr, account, i) ==
  IF i > Len(arr) THEN <<>>
  ELSE LET e == arr[i]
           n == IF e.t = "dict" THEN normalize_event(e, account) ELSE None
       IN (IF n.t = "none" THEN <<>> ELSE <<n.v>>) \o NormalizeAll(arr, account, i + 1)

\* parse_events(parsed, account, calendar_id)
parse_events(parsed, account) ==
  CASE parsed.t = "list" -> NormalizeAll(parsed.v, account, 1)
    [] parsed.t = "dict" ->
         LET arr == Or(Or(parsed.events, parsed.items), ListV(<<>>))
         IN IF arr.t = "list" THEN NormalizeAll(arr.v, account, 1) ELSE <<>>
    [] OTHER -> <<>>

RECURSIVE TsvRows(_, _, _)
\* The row loop of parse_tsv_events: rows of fewer than 4 columns and rows
\* with an empty first column are dropped.
TsvRows(rows, account, i) ==
  IF i > Len(rows) THEN <<>>
  ELSE LET r == rows[i]
           n == IF r.ncols < 4 \/ r.id = "" THEN None
                ELSE normalize_event(RawEvent(r.id, "", r.start), account)
       IN (IF n.t = "none" THEN <<>> ELSE <<n.v>>) \o TsvRows(rows, account, i + 1)

\* parse_tsv_events(text, account, calendar_id)
parse_tsv_events(out, account) ==
  IF out.sentinel \/ out.table.t = "none" THEN <<>> ELSE TsvRows(out.table.v, account, 1)

\* Lines 240-250 of main(): the parser chain on one account's stdout.  The
\* result is the events and whether a parse_error debug entry is recorded.
GcalParse(out, account) ==
  LET parsed == Or(extract_json(out), try_parse_json(out))
      ev1 == parse_events(parsed, account)
      ev2 == IF parsed.t = "none" /\ ev1 = <<>> THEN parse_tsv_events(out, account) ELSE ev1
  IN [events |-> ev2, parse_error |-> parsed.t = "none" /\ ev2 = <<>>]

\* ------------------------------------------------------------- gcal: main()

\* Lines 181-191: the accounts of the frontmatter, or the single fallback
\* `account`.
GcalAccounts(p) ==
  LET a == Or(p.accounts, ListV(<<>>))
      l == IF a.t = "list" THEN a.v ELSE <<>>
      fallback == Or(p.account, StrV(""))
  IN IF l # <<>> THEN l ELSE IF Truthy(fallback) THEN <<fallback.v>> ELSE <<>>

DefaultMaxEvents == 50

\* max_events = int(prefs.get('max_events') or 50); main() hands it to every
\* gccli call as --max and uses it nowhere else.
MaxEvents(p) == Or(p.max_events, IntV(DefaultMaxEvents)).v

\* Lines 181-194: int() of a tunable raises before the accounts are looked at;
\* without accounts the run ends with one error event.
GcalReadPrefs ==
  /\ conn = "gcal" /\ pc = "prefs"
  /\ IF IntRaises(Or(prefs.max_events, IntV(DefaultMaxEvents)))
       THEN Crash /\ UNCHANGED <<accounts, idx>>
       ELSE IF GcalAccounts(prefs) = <<>>
         THEN /\ EmitReturn(Error("gcal accounts not configured in SKILL.md frontmatter"), 1)
              /\ UNCHANGED <<accounts, idx>>
         ELSE /\ accounts' = GcalAccounts(prefs)
              /\ idx' = 1
              /\ pc' = "loop"
              /\ UNCHANGED <<conn, previous, pos_dir, prefs, events, exit_status, invoked>>
  /\ UNCHANGED <<disk, gcalv, ghv, state, outv>>

\* Lines 206-238: one iteration of the loop over the accounts, up to the end
\* of the command.
GcalAccount ==
  /\ conn = "gcal" /\ pc = "loop" /\ idx <= Len(accounts)
  /\ LET account == accounts[idx]
         progress == Progress(<<"gccli", account>>)
     IN \/ /\ account = ""
           /\ idx' = idx + 1
           /\ UNCHANGED <<run, gcalv, outv>>
        \/ /\ account # ""
           /\ \/ /\ events' = events \o <<progress, Error("gccli not found in PATH")>>
                 /\ invoked' = Append(invoked, Ran(<<"gccli", account>>, NotFound))
                 /\ pc' = "done"
                 /\ exit_status' = 1
                 /\ UNCHANGED <<idx, gcalv, outv>>
              \/ \E f \in Failures :
                   /\ events' = Append(events, progress)
                   /\ invoked' = Append(invoked, Ran(<<"gccli", account>>, f))
                   /\ per_account_errors' =
                        Put(per_account_errors, account, [code |-> f.code, stderr |-> f.stderr])
                   /\ idx' = idx + 1
                   /\ UNCHANGED <<pc, exit_status, all_events, per_account, per_account_debug, raw_out>>
              \/ \E out \in GcalStdouts :
                   /\ events' = Append(events, progress)
                   /\ invoked' = Append(invoked, Ran(<<"gccli", account>>, CmdOk(out)))
                   /\ raw_out' = out
                   /\ pc' = "parse"
                   /\ UNCHANGED <<idx, exit_status, gcalv>>
           /\ UNCHANGED <<conn, previous, pos_dir, prefs>>
  /\ UNCHANGED <<disk, accounts, ghv, state>>

\* Lines 240-252: the rest of the iteration, the output of the command parsed
\* and its events gathered.
GcalParsed ==
  /\ conn = "gcal" /\ pc = "parse"
  /\ LET account == accounts[idx]
         r == GcalParse(raw_out, account)
     IN /\ per_account_debug' =
             IF r.parse_error
               THEN Put(per_account_debug, account,
                        [parse_error |-> TRUE, stdout_head |-> HeadOf(raw_out.chars),
                         stderr_head |-> HeadOf(raw_out.errchars)])
               ELSE per_account_debug
        /\ all_events' = all_events \o r.events
        /\ per_account' = Put(per_account, account, Len(r.events))
  /\ idx' = idx + 1
  /\ pc' = "loop"
  /\ UNCHANGED <<conn, previous, pos_dir, prefs, events, exit_status, invoked>>
  /\ UNCHANGED <<disk, accounts, per_account_errors, ghv, state, outv>>

\* Lines 254-271: the events sorted by start, and the state document.  An
\* empty `errors` or `debug` mapping is dumped as null.
GcalBuildState ==
  /\ conn = "gcal" /\ pc = "loop" /\ idx > Len(accounts)
  /\ state' = [events |-> SortByStart(all_events),
               stats |-> [count |-> Len(all_events), per_account_count |-> per_account],
               errors |-> per_account_errors,
               debug |-> per_account_debug]
  /\ pc' = "mkdir"
  /\ UNCHANGED <<conn, previous, pos_dir, prefs, events, exit_status, invoked>>
  /\ UNCHANGED <<disk, accounts, idx, gcalv, ghv, outv>>

\* ---------------------------------------------------- github: command output

\* A node of the PR search, or an element of `gh pr list` / `gh issue list`:
\* its url ("" when missing) and its updatedAt (0 when missing).
RawItem(url, updatedAt) == [url |-> url, updatedAt |-> updatedAt]

RawItems == {RawItem("u1", 1), RawItem("u1", 2), RawItem("u2", 1), RawItem("", 1)}

\* The arrays one gh call returns.
NodeLists ==
  SeqUpTo(RawItems, 1)
    \cup {<<RawItem("u1", 1), RawItem("u2", 1)>>, <<RawItem("u2", 1), RawItem("u1", 2)>>}

\* gh_json(args): CalledProcessError on a non-zero exit, FileNotFoundError
\* without gh, a JSONDecodeError on stdout that is no JSON, else the value.
GhOutcomes == {NotFound} \cup Failures \cup {CmdOk(None)} \cup {CmdOk(ListV(l)) : l \in NodeLists}

\* An item of the state document.
Item(kind, raw, source, owner) ==
  [kind |-> kind, url |-> raw.url, updatedAt |-> raw.updatedAt, source |-> source,
   owner |-> owner]

\* The append loops of lines 226-242, 258-273 and 276-291.
ItemsOf(kind, l, source, owner) == [i \in 1..Len(l) |-> Item(kind, l[i], source, owner)]

\* The logins `gh auth status` can list.
LoginLists == {<<>>, <<"L1">>}

\* The raw notifications of `gh api /notifications`: objects with an id,
\* one without, and an element that is no object.
RawNotifications == {StrV("n1"), StrV(""), None}

RECURSIVE Notifications(_, _)
\* Lines 195-216: one normalized notification per dict element, its id
\* str(n.get('id') or '').
Notifications(rawl, i) ==
  IF i > Len(rawl) THEN <<>>
  ELSE (IF rawl[i].t = "str" THEN <<[id |-> rawl[i].v]>> ELSE <<>>)
         \o Notifications(rawl, i + 1)

\* --------------------------------------------------- github: the aggregation

RECURSIVE DedupLastWins(_, _, _)
\* Dedup gone wrong: a later item replaces the one recorded under its url.
DedupLastWins(its, seen_urls, i) ==
  IF i > Len(its) THEN <<>>
  ELSE IF its[i].url = "" \/ \E j \in (i + 1)..Len(its) : its[j].url = its[i].url
    THEN DedupLastWins(its, seen_urls, i + 1)
    ELSE <<its[i]>> \o DedupLastWins(its, seen_urls, i + 1)

RECURSIVE Dedup(_, _, _)
\* Lines 298-307: the items with a non-empty url not seen before, in order.
Dedup(its, seen_urls, i) ==
  IF i > Len(its) THEN <<>>
  ELSE IF its[i].url = "" \/ its[i].url \in seen_urls
    THEN Dedup(its, seen_urls, i + 1)
    ELSE <<its[i]>> \o Dedup(its, seen_urls \cup {its[i].url}, i + 1)

RECURSIVE InsertDesc(_, _, _)
\* s, sorted descending, with e put after every element whose key is >= e's.
InsertDesc(s, e, i) ==
  IF i > Len(s) THEN Append(s, e)
  ELSE IF s[i].updatedAt < e.updatedAt
    THEN SubSeq(s, 1, i - 1) \o <<e>> \o SubSeq(s, i, Len(s))
    ELSE InsertDesc(s, e, i + 1)

RECURSIVE SortByUpdatedDesc(_)
\* unique.sort(key=lambda x: str(x.get('updatedAt') or ''), reverse=True):
\* descending, and stable (reverse=True keeps equal elements in order).
SortByUpdatedDesc(s) ==
  IF s = <<>> THEN <<>>
  ELSE InsertDesc(SortByUpdatedDesc(SubSeq(s, 1, Len(s) - 1)), s[Len(s)], 1)

\* unique[:max_items]
Cap(s, max_items) == SubSeq(s, 1, Min(max_items, Len(s)))

\* Aggregate gone wrong: the cap applied before the sort.
AggregateCapFirst(its, max_items) == SortByUpdatedDesc(Cap(Dedup(its, {}, 1), max_items))

\* Lines 297-309.
Aggregate(its, max_items) == Cap(SortByUpdatedDesc(Dedup(its, {}, 1)), max_items)

DefaultMaxItems == 30

\* max_items = int(prefs.get('max_items') or 30)
MaxItems(p) == Or(p.max_items, IntV(DefaultMaxItems)).v

\* ----------------------------------------------------------- github: main()

\* Lines 124-129: the int() conversions of the tunables.
GithubReadPrefs ==
  /\ conn = "github" /\ pc = "prefs"
  /\ IF IntRaises(Or(prefs.max_items, IntV(DefaultMaxItems)))
       THEN Crash
       ELSE Goto("user", <<>>) /\ UNCHANGED invoked
  /\ UNCHANGED <<disk, accounts, idx, gcalv, ghv, state, outv>>

\* (e.stderr or '').strip() or '<call> failed (code=<returncode>)'
ErrText(f) == IF f.stderr # "" THEN f.stderr ELSE "failed (code)"

\* Lines 131-155: `gh api user`, the one mandatory call.
GithubUser ==
  /\ conn = "github" /\ pc = "user"
  /\ LET progress == Progress(<<"gh", "api user">>)
         cmd == <<"gh", "api user">>
     IN \/ /\ events' = events \o <<progress, Error("gh not found in PATH")>>
           /\ invoked' = Append(invoked, Ran(cmd, NotFound))
           /\ pc' = "done" /\ exit_status' = 1
           /\ UNCHANGED <<conn, previous, pos_dir, prefs>>
        \/ \E f \in Failures :
             /\ events' = events \o <<progress, ErrorDetails("gh api user failed", f.code, f.stderr)>>
             /\ invoked' = Append(invoked, Ran(cmd, f))
             /\ pc' = "done" /\ exit_status' = 1
             /\ UNCHANGED <<conn, previous, pos_dir, prefs>>
        \/ Goto("auth", <<progress>>) /\ invoked' = Append(invoked, Ran(cmd, CmdOk(None)))
  /\ UNCHANGED <<disk, accounts, idx, gcalv, ghv, state, outv>>

\* Lines 157-167: `gh auth status`; only CalledProcessError is caught.
GithubAuth ==
  /\ conn = "github" /\ pc = "auth"
  /\ LET progress == Progress(<<"gh", "auth status">>)
         cmd == <<"gh", "auth status">>
     IN \/ /\ CrashAfter(<<progress>>)
           /\ invoked' = Append(invoked, Ran(cmd, NotFound))
           /\ UNCHANGED accounts
        \/ \E f \in Failures :
             /\ Goto("notifications", <<progress>>)
             /\ invoked' = Append(invoked, Ran(cmd, f))
             /\ accounts' = <<>>
        \/ /\ Goto("notifications", <<progress>>)
           /\ invoked' = Append(invoked, Ran(cmd, CmdOk(None)))
           /\ accounts' \in LoginLists
  /\ UNCHANGED <<disk, idx, gcalv, ghv, state, outv>>

\* Lines 169-216: `gh api /notifications`; only CalledProcessError is caught,
\* stdout that is no JSON counts as no notifications.
GithubNotifications ==
  /\ conn = "github" /\ pc = "notifications"
  /\ LET progress == Progress(<<"gh", "api /notifications">>)
         prs == Progress(<<"gh", "api graphql (recent PRs)">>)
         cmd == <<"gh", "api /notifications">>
     IN \/ /\ CrashAfter(<<progress>>)
           /\ invoked' = Append(invoked, Ran(cmd, NotFound))
           /\ UNCHANGED <<notifications, notifications_error, idx>>
        \/ \E f \in Failures :
             /\ Goto("prs", <<progress, prs>>)
             /\ invoked' = Append(invoked, Ran(cmd, f))
             /\ notifications' = <<>>
             /\ notifications_error' = StrV(ErrText(f))
             /\ idx' = 1
        \/ \E rawl \in SeqUpTo(RawNotifications, 1) :
             /\ Goto("prs", <<progress, prs>>)
             /\ invoked' = Append(invoked, Ran(cmd, CmdOk(None)))
             /\ notifications' = Notifications(rawl, 1)
             /\ UNCHANGED notifications_error
             /\ idx' = 1
  /\ UNCHANGED <<disk, accounts, gcalv, items, items_errors, state, outv>>

\* gh_json raises: the command failed, gh is missing, or stdout is no JSON.
GhRaises(o) == IF o.k = "ok" THEN o.stdout.t = "none" ELSE TRUE

\* What the `except` clauses record: the stderr of a CalledProcessError
\* (lines 243-244, 292-293), str(e) of any other exception (245-246, 294-295).
GhErrText(o) == IF o.k = "failed" THEN ErrText(o) ELSE "exception"

\* Lines 223-248: one iteration of the loop over the logins.  Whatever
\* graphql_search_prs raises is caught and recorded under "prs:<login>".
GithubPrs ==
  /\ conn = "github" /\ pc = "prs" /\ idx <= Len(accounts)
  /\ LET login == accounts[idx]
     IN /\ \E o \in GhOutcomes :
             /\ invoked' = Append(invoked, Ran(<<"gh", "api graphql", login>>, o))
             /\ items_errors' =
                  IF GhRaises(o) THEN Put(items_errors, <<"prs", login>>, GhErrText(o))
                  ELSE items_errors
             /\ items' =
                  IF GhRaises(o) THEN items
                  ELSE items \o ItemsOf("pr", o.stdout.v, "authored", login)
        /\ Goto("prs", <<Progress(<<"recent PRs", login>>)>>)
        /\ idx' = idx + 1
  /\ UNCHANGED <<disk, accounts, gcalv, notifications, notifications_error, state, outv>>

\* tracked_repos = prefs.get('tracked_repos') or []; not a list: []
TrackedRepos(p) == IF p.tracked_repos.t = "list" THEN p.tracked_repos.v ELSE <<>>

\* Lines 250-251: after the last login, the progress event of the tracked
\* repositories when there are any.
GithubPrsDone ==
  /\ conn = "github" /\ pc = "prs" /\ idx > Len(accounts)
  /\ Goto("tracked", IF TrackedRepos(prefs) # <<>>
                        THEN <<Progress(<<"gh", "repo items (tracked repos)">>)>> ELSE <<>>)
  /\ idx' = 1
  /\ UNCHANGED <<invoked, disk, accounts, gcalv, ghv, state, outv>>

\* Lines 252-295: one iteration of the loop over the tracked repositories:
\* `gh pr list`, then `gh issue list`, in one try block.
GithubTracked ==
  /\ conn = "github" /\ pc = "tracked" /\ idx <= Len(TrackedRepos(prefs))
  /\ LET repo == TrackedRepos(prefs)[idx]
         prcmd == <<"gh", "pr list", repo>>
         issuecmd == <<"gh", "issue list", repo>>
     IN \/ /\ repo = ""
           /\ UNCHANGED <<invoked, items, items_errors>>
        \/ /\ repo # ""
           /\ \E o \in GhOutcomes :
                /\ GhRaises(o)
                /\ invoked' = Append(invoked, Ran(prcmd, o))
                /\ items_errors' = Put(items_errors, <<"tracked", repo>>, GhErrText(o))
                /\ UNCHANGED items
        \/ /\ repo # ""
           /\ \E o1, o2 \in GhOutcomes :
                /\ ~GhRaises(o1)
                /\ invoked' = invoked \o <<Ran(prcmd, o1), Ran(issuecmd, o2)>>
                /\ items_errors' =
                     IF GhRaises(o2) THEN Put(items_errors, <<"tracked", repo>>, GhErrText(o2))
                     ELSE items_errors
                /\ items' = items \o ItemsOf("pr", o1.stdout.v, "tracked", repo)
                              \o (IF GhRaises(o2) THEN <<>>
                                  ELSE ItemsOf("issue", o2.stdout.v, "tracked", repo))
  /\ idx' = idx + 1
  /\ UNCHANGED <<conn, previous, pc, pos_dir, prefs, events, exit_status>>
  /\ UNCHANGED <<disk, accounts, gcalv, notifications, notifications_error, state, outv>>

\* Lines 297-326: the items de-duplicated, sorted and capped, and the state
\* document.  An empty items_errors mapping is dumped as null.
GithubBuildState ==
  /\ conn = "github" /\ pc = "tracked" /\ idx > Len(TrackedRepos(prefs))
  /\ state' = [notifications |-> notifications,
               notifications_error |-> notifications_error,
               items |-> Aggregate(items, MaxItems(prefs)),
               items_error |-> items_errors]
  /\ pc' = "mkdir"
  /\ UNCHANGED <<conn, previous, pos_dir, prefs, events, exit_status, invoked>>
  /\ UNCHANGED <<disk, accounts, idx, gcalv, ghv, outv>>

\* ------------------------------------------------------------------- gmail

\* A line of the stdout of `gmcli search`, as parse_search_output sees it:
\*   "header": the ID... header line;  "total": a "Total:" line;
\*   "tab":   at least 4 non-empty tab-separated columns, the first being id;
\*   "pipe":  fewer tab columns, at least 3 `|`-separated parts, the first id
\*            ("" when the line begins with `|`);
\*   "words": any other non-empty line, id being its first token.
Line(kind, id) == [kind |-> kind, id |-> id]

GmailLines ==
  {Line("header", "ID"), Line("total", "Total:"), Line("tab", "t1"), Line("tab", "t2"),
   Line("pipe", "t3"), Line("pipe", ""), Line("words", "t4")}

\* The elements of a JSON array of threads: objects with a thread id (StrV),
\* an object without (StrV("")), an element that is no object (None).
GmailElements == {StrV("t1"), StrV(""), None}

\* A JSON object, by its `threads`, `results` and `messages` members (None
\* for an absent member).
GmailDict(threads, results, messages) ==
  [t |-> "dict", threads |-> threads, results |-> results, messages |-> messages]

\* The JSON values the output can be as a whole: an array, or an object whose
\* `threads` or `messages` member is an array, or that has none of the three.
GmailJson ==
  {ListV(l) : l \in SeqUpTo(GmailElements, 1)}
    \cup {GmailDict(ListV(l), None, None) : l \in SeqUpTo(GmailElements, 1)}
    \cup {GmailDict(None, None, ListV(<<StrV("t1")>>)), GmailDict(None, None, None)}

\* The stdout of gmcli: its lines and, when the text as a whole is JSON, the
\* value.  JSON text is one line of the "words" kind, whose first token is a
\* fragment of the JSON text.
GmailStdouts ==
  {[lines |-> l, json |-> None] : l \in SeqUpTo(GmailLines, MaxLines)}
    \cup {[lines |-> <<Line("words", "{json")>>, json |-> j] : j \in GmailJson}

Thread(id) == [id |-> id]

RECURSIVE TabThreads(_, _)
\* Lines 73-111: a thread per line of at least 4 tab-separated columns.
TabThreads(lines, i) ==
  IF i > Len(lines) THEN <<>>
  ELSE (IF lines[i].kind = "tab" THEN <<Thread(lines[i].id)>> ELSE <<>>)
         \o TabThreads(lines, i + 1)

RECURSIVE JsonThreads(_, _)
\* Lines 117-134: a thread per object of the array that has a thread id.
JsonThreads(arr, i) ==
  IF i > Len(arr) THEN <<>>
  ELSE (IF arr[i].t = "str" /\ arr[i].v # "" THEN <<Thread(arr[i].v)>> ELSE <<>>)
         \o JsonThreads(arr, i + 1)

RECURSIVE FreeformThreads(_, _)
\* Lines 141-172: every non-empty line but the header gives a thread, its id
\* the part before the first `|` or the first token.
FreeformThreads(lines, i) ==
  IF i > Len(lines) THEN <<>>
  ELSE (IF lines[i].kind = "header" THEN <<>> ELSE <<Thread(lines[i].id)>>)
         \o FreeformThreads(lines, i + 1)

\* Line 137: the first truthy of the three members; an empty array is falsy.
SearchItems(j) == Or(Or(j.threads, j.results), j.messages)

\* parse_search_output(output).  For an object whose items are an array the
\* function calls itself on json.dumps(items), a one-line JSON array; an
\* object without such items falls through to the freeform lines.
parse_search_output(out) ==
  LET tab == TabThreads(out.lines, 1)
  IN IF tab # <<>> THEN tab
     ELSE IF out.json.t = "list" THEN JsonThreads(out.json.v, 1)
     ELSE IF out.json.t = "dict" /\ SearchItems(out.json).t = "list"
       THEN JsonThreads(SearchItems(out.json).v, 1)
     ELSE FreeformThreads(out.lines, 1)

\* Lines 184-188: int() of max_threads raises before the account is looked at;
\* without an account the run ends with one error event.
GmailReadPrefs ==
  /\ conn = "gmail" /\ pc = "prefs"
  /\ IF IntRaises(Or(prefs.max_threads, IntV(50)))
       THEN Crash
       ELSE IF ~Truthy(prefs.account)
         THEN EmitReturn(Error("gmail account not configured in SKILL.md frontmatter"), 1)
         ELSE Goto("search", <<>>) /\ UNCHANGED invoked
  /\ UNCHANGED <<disk, accounts, idx, gcalv, ghv, state, outv>>

\* SingleFailure gone wrong: the error event of a non-zero exit without the
\* details of the failure.
SingleFailurePlain(cmd, progress, notfound, failed) ==
  \/ /\ events' = events \o <<progress, Error(notfound)>>
     /\ invoked' = Append(invoked, Ran(cmd, NotFound))
     /\ pc' = "done" /\ exit_status' = 1
     /\ UNCHANGED <<conn, previous, pos_dir, prefs, state, raw_out>>
  \/ \E f \in Failures :
       /\ events' = events \o <<progress, Error(failed)>>
       /\ invoked' = Append(invoked, Ran(cmd, f))
       /\ pc' = "done" /\ exit_status' = 1
       /\ UNCHANGED <<conn, previous, pos_dir, prefs, state, raw_out>>

\* The single command of the gmail and linear connectors (gmail lines 190-211,
\* linear lines 108-129): not found and a non-zero exit both end the run with
\* one error event.
SingleFailure(cmd, progress, notfound, failed) ==
  \/ /\ events' = events \o <<progress, Error(notfound)>>
     /\ invoked' = Append(invoked, Ran(cmd, NotFound))
     /\ pc' = "done" /\ exit_status' = 1
     /\ UNCHANGED <<conn, previous, pos_dir, prefs, state, raw_out>>
  \/ \E f \in Failures :
       /\ events' = events \o <<progress, ErrorDetails(failed, f.code, f.stderr)>>
       /\ invoked' = Append(invoked, Ran(cmd, f))
       /\ pc' = "done" /\ exit_status' = 1
       /\ UNCHANGED <<conn, previous, pos_dir, prefs, state, raw_out>>

\* Lines 190-222: the search, its output parsed, the state document.
GmailSearch ==
  /\ conn = "gmail" /\ pc = "search"
  /\ LET cmd == <<"gmcli", prefs.account.v, "search">>
         progress == Progress(cmd)
     IN \/ SingleFailure(cmd, progress, "gmcli not found in PATH", "gmcli search failed")
        \/ \E out \in GmailStdouts :
             /\ Goto("mkdir", <<progress>>)
             /\ invoked' = Append(invoked, Ran(cmd, CmdOk(out)))
             /\ state' = [threads |-> parse_search_output(out)]
             /\ raw_out' = out
  /\ UNCHANGED <<disk, accounts, idx, gcalv, ghv>>

\* ------------------------------------------------------------------ linear

\* A line of the stdout of issues.js, as parse_issues_text sees it:
\*   "blank"; "total": a "Total:" line; "header": "IDENT - Title", not
\*   indented by two spaces (v: the identifier); "id": an indented "ID: <v>"
\*   line.
LinearLines ==
  {Line("blank", ""), Line("total", ""), Line("header", "I1"), Line("header", "I2"),
   Line("id", "x1")}

LinearStdouts == SeqUpTo(LinearLines, MaxLines)

NoIssue == [identifier |-> "", id |-> ""]

RECURSIVE IssuesLoop(_, _, _, _)
\* The loop of parse_issues_text, lines 45-88: `current` is NoIssue for None;
\* an issue is appended at a blank line and at the end of the output.
IssuesLoop(lines, i, current, issues) ==
  IF i > Len(lines)
    THEN IF current # NoIssue THEN Append(issues, current) ELSE issues
  ELSE LET l == lines[i]
       IN CASE l.kind = "blank" ->
                 IssuesLoop(lines, i + 1, NoIssue,
                            IF current # NoIssue THEN Append(issues, current) ELSE issues)
            [] l.kind = "total" -> IssuesLoop(lines, i + 1, current, issues)
            [] l.kind = "header" ->
                 IssuesLoop(lines, i + 1, [identifier |-> l.id, id |-> ""], issues)
            [] OTHER ->
                 IssuesLoop(lines, i + 1,
                            IF current = NoIssue THEN current ELSE [current EXCEPT !.id = l.id],
                            issues)

parse_issues_text(out) == IssuesLoop(out, 1, NoIssue, <<>>)

\* Lines 99-106: int() of limit; vendor/issues.js must exist.
LinearReadPrefs ==
  /\ conn = "linear" /\ pc = "prefs"
  /\ IF IntRaises(Or(prefs.limit, IntV(50)))
       THEN Crash
       ELSE IF ~prefs.issues_js
         THEN EmitReturn(Error("linear vendor/issues.js not found"), 1)
         ELSE Goto("issues", <<>>) /\ UNCHANGED invoked
  /\ UNCHANGED <<disk, accounts, idx, gcalv, ghv, state, outv>>

\* Lines 108-137: issues.js, its output parsed, the state document.
LinearIssues ==
  /\ conn = "linear" /\ pc = "issues"
  /\ LET cmd == <<"node", "issues.js">>
         progress == Progress(cmd)
     IN \/ SingleFailure(cmd, progress, "node not found in PATH", "linear issues.js failed")
        \/ \E out \in LinearStdouts :
             /\ Goto("mkdir", <<progress>>)
             /\ invoked' = Append(invoked, Ran(cmd, CmdOk(out)))
             /\ state' = [issues |-> parse_issues_text(out)]
             /\ raw_out' = out
  /\ UNCHANGED <<disk, accounts, idx, gcalv, ghv>>

\* ------------------------------------------------- writing the state document

\* os.makedirs(os.path.join(pos_dir, 'STATE'), exist_ok=True): an OSError (the
\* directory cannot be created) is not caught.
MakeDirs ==
  /\ pc = "mkdir"
  /\ \/ Crash
     \/ pc' = "open" /\ UNCHANGED <<conn, previous, pos_dir, prefs, events, exit_status, invoked>>
  /\ UNCHANGED <<disk, accounts, idx, gcalv, ghv, state, outv>>

\* open(state_path, 'w'): creates the file or truncates it to length 0, at the
\* final path; an OSError is not caught and leaves the file as it was.
OpenFile ==
  /\ pc = "open"
  /\ \/ Crash /\ UNCHANGED file
     \/ /\ file' = [gen |-> "new", n |-> 0]
        /\ pc' = "write"
        /\ UNCHANGED <<conn, previous, pos_dir, prefs, events, exit_status, invoked>>
  /\ UNCHANGED <<accounts, idx, gcalv, ghv, state, outv>>

\* json.dump(state, f, ...) writes the encoder's chunks one after the other
\* and f.write('\n') the last; a write that fails (disk full) raises OSError,
\* the `with` closes the file with what was written, and nothing catches it.
WriteChunk ==
  /\ pc = "write" /\ file.n < TotalWrites
  /\ \/ Crash /\ UNCHANGED file
     \/ /\ file' = [file EXCEPT !.n = @ + 1]
        /\ UNCHANGED <<run>>
  /\ UNCHANGED <<accounts, idx, gcalv, ghv, state, outv>>

\* The `data` of the result event.
ResultData ==
  CASE conn = "gcal" -> [events |-> Len(all_events), accounts |-> accounts]
    [] conn = "github" -> [accounts |-> Len(accounts), notifications |-> Len(notifications),
                          notifications_error |-> notifications_error]
    [] conn = "gmail" -> [threads |-> Len(state.threads)]
    [] conn = "linear" -> [issues |-> Len(state.issues)]

\* Report gone wrong: the result event emitted before the artifact event.
ReportResultFirst ==
  /\ pc = "write" /\ file.n = TotalWrites
  /\ events' = events \o <<Result(ResultData), Artifact(<<"STATE", conn>>)>>
  /\ pc' = "done"
  /\ exit_status' = 0
  /\ UNCHANGED <<conn, previous, pos_dir, prefs, invoked>>
  /\ UNCHANGED <<disk, accounts, idx, gcalv, ghv, state, outv>>

\* The last three lines of main(): emit artifact, emit result, return 0.
Report ==
  /\ pc = "write" /\ file.n = TotalWrites
  /\ events' = events \o <<Artifact(<<"STATE", conn>>), Result(ResultData)>>
  /\ pc' = "done"
  /\ exit_status' = 0
  /\ UNCHANGED <<conn, previous, pos_dir, prefs, invoked>>
  /\ UNCHANGED <<disk, accounts, idx, gcalv, ghv, state, outv>>

\* ------------------------------------------------------------ specification

NoState == [built |-> FALSE]

\* No command has completed yet.
NoOutput == [read |-> FALSE]

Init ==
  /\ conn \in Connectors
  /\ pc = "env"
  /\ pos_dir \in BOOLEAN
  /\ prefs = NoPrefs
  /\ events = <<>>
  /\ exit_status = NoExit
  /\ invoked = <<>>
  /\ file \in {NoFile, PrevFile}
  /\ previous = file
  /\ accounts = <<>>
  /\ idx = 0
  /\ all_events = <<>>
  /\ per_account = EmptyDict
  /\ per_account_errors = EmptyDict
  /\ per_account_debug = EmptyDict
  /\ raw_out = NoOutput
  /\ notifications = <<>>
  /\ notifications_error = None
  /\ items = <<>>
  /\ items_errors = EmptyDict
  /\ state = NoState

Next ==
  \/ CheckEnv
  \/ LoadConfig
  \/ GcalReadPrefs
  \/ GcalAccount
  \/ GcalParsed
  \/ GcalBuildState
  \/ GithubReadPrefs
  \/ GithubUser
  \/ GithubAuth
  \/ GithubNotifications
  \/ GithubPrs
  \/ GithubPrsDone
  \/ GithubTracked
  \/ GithubBuildState
  \/ GmailReadPrefs
  \/ GmailSearch
  \/ LinearReadPrefs
  \/ LinearIssues
  \/ MakeDirs
  \/ OpenFile
  \/ WriteChunk
  \/ Report

Spec == Init /\ [][Next]_vars

\* ------------------------------------------- the github aggregation on its own

\* The gathered items lines 297-309 are run on: with and without url, with and
\* without updatedAt, of both sources.
AggItems ==
  {Item("pr", RawItem(u, d), "authored", "L1") : u \in {"u1", "u2", "u3"}, d \in {0, 1}}
    \cup {Item("pr", RawItem("u2", 1), "tracked", "r1"),
          Item("pr", RawItem("", 2), "tracked", "r1"),
          Item("issue", RawItem("u1", 2), "tracked", "r1")}

\* The place of an item in the gathering order of lines 223-295: the PRs of
\* the logins, then per tracked repository its PRs and then its issues.
Gathering(it) == IF it.source = "authored" THEN 1 ELSE IF it.kind = "pr" THEN 2 ELSE 3

\* The events emitted and the commands run when main() gets to line 297 with
\* one login and one tracked repository and every command succeeded.
AggEvents ==
  <<Progress(<<"gh", "api user">>), Progress(<<"gh", "auth status">>),
    Progress(<<"gh", "api /notifications">>), Progress(<<"gh", "api graphql (recent PRs)">>),
    Progress(<<"recent PRs", "L1">>), Progress(<<"gh", "repo items (tracked repos)">>)>>

AggInvoked ==
  <<Ran(<<"gh", "api user">>, CmdOk(None)), Ran(<<"gh", "auth status">>, CmdOk(None)),
    Ran(<<"gh", "api /notifications">>, CmdOk(None)),
    Ran(<<"gh", "api graphql", "L1">>, CmdOk(None)),
    Ran(<<"gh", "pr list", "r1">>, CmdOk(None)), Ran(<<"gh", "issue list", "r1">>, CmdOk(None))>>

\* main() at line 297 of the github connector after such a run, the gathered
\* items (longer lists than the commands of Spec return) and max_items drawn
\* from bounded sets.
InitAgg ==
  /\ conn = "github"
  /\ pc = "tracked"
  /\ pos_dir = TRUE
  /\ prefs \in [max_items : {None} \cup {IntV(c) : c \in 1..MaxGathered},
                tracked_repos : {ListV(<<"r1">>)}]
  /\ events = AggEvents
  /\ exit_status = NoExit
  /\ invoked = AggInvoked
  /\ file \in {NoFile, PrevFile}
  /\ previous = file
  /\ accounts = <<"L1">>
  /\ idx = 2
  /\ all_events = <<>>
  /\ per_account = EmptyDict
  /\ per_account_errors = EmptyDict
  /\ per_account_debug = EmptyDict
  /\ raw_out = NoOutput
  /\ notifications = <<>>
  /\ notifications_error = None
  /\ items \in {l \in SeqUpTo(AggItems, MaxGathered) :
                  \A i \in 1..(Len(l) - 1) : Gathering(l[i]) <= Gathering(l[i + 1])}
  /\ items_errors = EmptyDict
  /\ state = NoState

NextAgg == GithubBuildState

SpecAgg == InitAgg /\ [][NextAgg]_vars

\* ------------------------------------------ the gcal parser chain on its own

\* Raw event objects with and without each of the identity candidates.
RichEvents == {RawEvent(i, e, d) : i \in {"", "e1"}, e \in {"", "e3"}, d \in {1, 2}}

\* JSON values the command can print: arrays of event objects and a number,
\* objects with an `events` or an `items` array, with both, with neither.
RichJson ==
  {ListV(l) : l \in SeqUpTo(RichEvents \cup {IntV(1)}, MaxRecs)}
    \cup {TopDict(None, None, FALSE), TopDict(None, None, TRUE)}
    \cup {TopDict(ListV(l), None, FALSE) : l \in SeqUpTo(RichEvents, 1)}
    \cup {TopDict(None, ListV(l), FALSE) : l \in SeqUpTo(RichEvents, 1)}
    \cup {TopDict(ListV(<<>>), ListV(<<e>>), FALSE) : e \in RichEvents}

\* The outputs lines 240-252 are run on.
GcalTexts ==
  GcalStdouts \cup {Stdout(j, w, FALSE, None) : j \in RichJson, w \in BOOLEAN}

\* main() at line 240 of the gcal connector, in the iteration of the only
\* account A, the command having printed one of GcalTexts.
InitGcal ==
  /\ conn = "gcal"
  /\ pc = "parse"
  /\ pos_dir = TRUE
  /\ prefs \in [accounts : {ListV(<<"A">>)}, account : {None}, max_events : {None, IntV(1)}]
  /\ events = <<Progress(<<"gccli", "A">>)>>
  /\ exit_status = NoExit
  /\ invoked = <<Ran(<<"gccli", "A">>, CmdOk(None))>>
  /\ file \in {NoFile, PrevFile}
  /\ previous = file
  /\ accounts = <<"A">>
  /\ idx = 1
  /\ all_events = <<>>
  /\ per_account = EmptyDict
  /\ per_account_errors = EmptyDict
  /\ per_account_debug = EmptyDict
  /\ raw_out \in GcalTexts
  /\ notifications = <<>>
  /\ notifications_error = None
  /\ items = <<>>
  /\ items_errors = EmptyDict
  /\ state = NoState

NextGcal == GcalParsed \/ GcalBuildState

SpecGcal == InitGcal /\ [][NextGcal]_vars

\* ------------------------------------------------------------------ claims

Count(type) == Cardinality({i \in 1..Len(events) : events[i].type = type})
Last == events[Len(events)]
Loaded == "loaded" \notin DOMAIN prefs
Built == "built" \notin DOMAIN state
Exited == pc = "done"

\* C1: at every moment the file at the final path is the complete previous
\* snapshot (or absent as before the run) or the complete new one; never an
\* empty or partly written document, also after a write that failed.
C1_SnapshotAtomic == file = previous \/ (file.gen = "new" /\ Complete(file))

\* C2: a result or error event is the last event and ends the run, so there
\* is at most one result, no result together with an error, and nothing after
\* either; the exit status is 0 exactly when the last event is a result with
\* ok = true.
C2_TerminalProtocol ==
  /\ \A i \in 1..Len(events) :
       events[i].type \in {"result", "error"} => (i = Len(events) /\ Exited)
  /\ Exited => (exit_status = 0 <=> (events # <<>> /\ Last.type = "result" /\ Last.ok))
  /\ ~Exited => exit_status = NoExit

\* A github run that ended with the result event after its progress and
\* artifact events.
C2_Witness ==
  /\ conn = "github" /\ Exited /\ exit_status = 0
  /\ Len(events) > 2 /\ Last.type = "result" /\ events[Len(events) - 1].type = "artifact"

\* C3: a run that ended with a non-zero status emitted exactly one error event
\* (whatever the fatal condition: configuration, missing executable,
\* storage), and a run that ended with status 0 emitted its result event.
C3_FatalReported ==
  Exited => IF exit_status = 0 THEN Count("result") = 1 ELSE Count("error") = 1

\* The configuration the claim C4 is about: POS_DIR absent, or the frontmatter
\* without the account keys (gcal: accounts and account; gmail: account).
ConfigMissing ==
  \/ ~pos_dir
  \/ /\ Loaded
     /\ \/ conn = "gcal" /\ ~Truthy(prefs.accounts) /\ ~Truthy(prefs.account)
        \/ conn = "gmail" /\ ~Truthy(prefs.account)

\* C4: with that configuration the run that ended emitted exactly one event,
\* an error, ran no command, left the snapshot file alone and exited non-zero.
C4_ConfigErrorIsSingleError ==
  (Exited /\ ConfigMissing) =>
    /\ Len(events) = 1 /\ events[1].type = "error"
    /\ invoked = <<>>
    /\ file = previous
    /\ exit_status # 0

\* C5: in gcal and github, a command that ends with executable-not-found is
\* the last command of the run: the run has ended and the snapshot file is
\* not written.
C5_NotFoundStopsRun ==
  conn \in {"gcal", "github"} =>
    \A i \in 1..Len(invoked) :
      invoked[i].k = "notfound" => (i = Len(invoked) /\ Exited /\ file = previous)

\* The run of C6: accounts A and B in either order, A gave 2 events, B's
\* command exited non-zero, and the run ended with status 0.
PartialSourceRun ==
  /\ conn = "gcal" /\ Exited /\ exit_status = 0
  /\ accounts \in {<<"A", "B">>, <<"B", "A">>}
  /\ "A" \in DOMAIN per_account /\ per_account["A"] = 2
  /\ "B" \in DOMAIN per_account_errors

\* C6: that run's result event has ok = true, the count 2 and an error entry
\* naming B, and the written snapshot holds exactly the 2 events of A.
C6_PartialSourceResult ==
  PartialSourceRun =>
    /\ Last.type = "result" /\ Last.ok /\ Last.data.events = 2
    /\ file.gen = "new" /\ Complete(file)
    /\ Len(state.events) = 2 /\ \A i \in 1..2 : state.events[i].account = "A"
    /\ "B" \in DOMAIN state.errors
    /\ "errors" \in DOMAIN Last.data /\ "B" \in DOMAIN Last.data.errors

\* The single command of gmail and linear, and `gh api user` of github (each
\* the first command of its run), exited non-zero.
MandatoryFailed ==
  /\ conn \in {"gmail", "linear", "github"}
  /\ invoked # <<>> /\ invoked[1].k = "failed"

\* C7: then the run has ended with a non-zero status, its only error event
\* carries the exit code and stderr of the command, there is no artifact and
\* no result event, no further command ran, and the snapshot file is as before.
C7_SingleSourceFailureFatal ==
  MandatoryFailed =>
    /\ Exited /\ exit_status # 0
    /\ Count("error") = 1 /\ Last.type = "error"
    /\ Last.details = [code |-> invoked[1].code, stderr |-> invoked[1].stderr]
    /\ Count("artifact") = 0 /\ Count("result") = 0
    /\ Len(invoked) = 1
    /\ file = previous

\* A gmail run over an existing snapshot whose search exited with code 2.
C7_Witness ==
  /\ conn = "gmail" /\ MandatoryFailed /\ invoked[1].code = 2 /\ Exited
  /\ previous = PrevFile

\* C8: the events of the gcal state document hold one record per id, the first
\* one gathered with that id.
C8_GcalIdentityDedup ==
  (conn = "gcal" /\ Built) =>
    \A a \in 1..Len(state.events) :
      /\ \A b \in 1..Len(state.events) : state.events[a].id = state.events[b].id => a = b
      /\ \E i \in 1..Len(all_events) :
           /\ all_events[i] = state.events[a]
           /\ \A j \in 1..(i - 1) : all_events[j].id # all_events[i].id

\* C9: the items of the github state document hold at most one item per url,
\* and each is the first gathered item with its url, unchanged.
C9_UrlDedupFirstSeen ==
  (conn = "github" /\ Built) =>
    \A a \in 1..Len(state.items) :
      /\ \A b \in 1..Len(state.items) : state.items[a].url = state.items[b].url => a = b
      /\ \E i \in 1..Len(items) :
           /\ items[i] = state.items[a]
           /\ \A j \in 1..(i - 1) : items[j].url # items[i].url

\* Two different items were gathered under one url and the first is in the
\* state document.
C9_Witness ==
  /\ conn = "github" /\ Built
  /\ \E i, j \in 1..Len(items) :
       /\ i < j /\ items[i].url = items[j].url /\ items[i] # items[j]
       /\ \E a \in 1..Len(state.items) : state.items[a] = items[i]

\* The urls gathered, and the place of the first item gathered under a url.
Urls == {items[i].url : i \in 1..Len(items)} \ {""}
FirstAt(u) == CHOOSE i \in 1..Len(items) : items[i].url = u /\ \A j \in 1..(i - 1) : items[j].url # u

\* x ranks before y: a later updatedAt, or the same and gathered earlier.
RanksBefore(x, y) ==
  \/ x.updatedAt > y.updatedAt
  \/ x.updatedAt = y.updatedAt /\ FirstAt(x.url) < FirstAt(y.url)

\* C10: with more de-duplicated items than max_items, the state document holds
\* exactly max_items items, in rank order (descending updatedAt, missing
\* last, equal ones in gathering order), and each ranks before every
\* de-duplicated item left out.
C10_CapAfterSort ==
  (conn = "github" /\ Built /\ MaxItems(prefs) < Cardinality(Urls)) =>
    LET out == state.items
        kept == {out[a].url : a \in 1..Len(out)}
    IN /\ Len(out) = MaxItems(prefs)
       /\ \A a, b \in 1..Len(out) : a < b => RanksBefore(out[a], out[b])
       /\ \A a \in 1..Len(out) : \A u \in Urls \ kept : RanksBefore(out[a], items[FirstAt(u)])

\* The cap cut between two items of equal updatedAt, and an item without
\* updatedAt was gathered first.
C10_Witness ==
  /\ conn = "github" /\ Built /\ MaxItems(prefs) < Cardinality(Urls)
  /\ Len(state.items) = 2
  /\ items[1].updatedAt = 0 /\ items[1].url # ""
  /\ \E u \in Urls \ {state.items[a].url : a \in 1..2} :
       items[FirstAt(u)].updatedAt = state.items[2].updatedAt

\* C11: the events of the gcal state document are never more than max_events.
C11_EventsCapped ==
  (conn = "gcal" /\ Built) => Len(state.events) <= MaxEvents(prefs)

\* The last thing the loop did was to parse the output of the command of
\* accounts[idx - 1], which no earlier entry of the account list names.
JustParsed ==
  /\ conn = "gcal" /\ pc # "parse" /\ idx > 1 /\ accounts[idx - 1] # ""
  /\ invoked # <<>> /\ invoked[Len(invoked)].k = "ok"
  /\ \A j \in 1..(idx - 2) : accounts[j] # accounts[idx - 1]

\* The events that account contributed: the last per_account[account] of
\* all_events.
Contributed ==
  SubSeq(all_events, Len(all_events) - per_account[accounts[idx - 1]] + 1, Len(all_events))

\* C12: for output that is noise followed by a complete JSON value (the scan
\* finds a value and the text as a whole is not that value), the account's
\* events are those of that value and no parse_error entry is recorded.
C12_EmbeddedJsonWins ==
  (JustParsed /\ raw_out.embedded.t # "none" /\ ~raw_out.whole) =>
    /\ Contributed = parse_events(raw_out.embedded, accounts[idx - 1])
    /\ accounts[idx - 1] \notin DOMAIN per_account_debug

\* The output is the sentinel line, or the tabular header and nothing else.
NoItemsOutput ==
  IF raw_out.sentinel THEN TRUE
  ELSE IF raw_out.table.t = "list" THEN raw_out.table.v = <<>> /\ raw_out.embedded.t = "none"
  ELSE FALSE

\* C13: an account whose output is the sentinel or a header without rows
\* contributes no events and gets no parse_error entry, neither in
\* per_account_debug nor in the debug section of the state document.
C13_SentinelIsEmptyResult ==
  (JustParsed /\ NoItemsOutput) =>
    /\ per_account[accounts[idx - 1]] = 0
    /\ accounts[idx - 1] \notin DOMAIN per_account_debug
    /\ Built => accounts[idx - 1] \notin DOMAIN state.debug

\* No parser of the chain matches the output: the scan finds no JSON value,
\* the text is not the sentinel and does not begin with the tabular header.
NoParserMatched ==
  raw_out.embedded.t = "none" /\ ~raw_out.sentinel /\ raw_out.table.t = "none"

\* C14: an account whose output no parser matches does not end the run (the
\* run is still in the loop or has gone on to build the state document, and
\* once the document is written completely it ended with a result event and
\* status 0); the account's count is 0 and its debug entry carries the first
\* 2000 characters, at most, of stdout and of stderr.
C14_ParseFailureSurfaced ==
  (JustParsed /\ NoParserMatched) =>
    LET account == accounts[idx - 1]
    IN /\ Exited => Built
       /\ (Exited /\ file.gen = "new" /\ Complete(file)) =>
            (exit_status = 0 /\ Last.type = "result" /\ Last.ok)
       /\ per_account[account] = 0
       /\ account \in DOMAIN per_account_debug
       /\ per_account_debug[account].parse_error
       /\ per_account_debug[account].stdout_head <= HeadChars
       /\ per_account_debug[account].stdout_head = Min(raw_out.chars, HeadChars)
       /\ per_account_debug[account].stderr_head <= HeadChars
       /\ per_account_debug[account].stderr_head = Min(raw_out.errchars, HeadChars)
       /\ Built => /\ state.debug[account] = per_account_debug[account]
                   /\ state.stats.per_account_count[account] = 0

\* The first of two accounts printed more than 2000 characters no parser
\* matches, and the loop goes on to the second.
C14_Witness ==
  /\ JustParsed /\ NoParserMatched /\ raw_out.chars > HeadChars
  /\ pc = "loop" /\ idx = 2 /\ Len(accounts) = 2

\* The places of the records of an array that are objects with an identity
\* candidate, and the k-th of them.
Identified(arr) ==
  {i \in 1..Len(arr) :
     IF arr[i].t = "dict" THEN arr[i].id # "" \/ arr[i].eventId # "" ELSE FALSE}

Nth(S, k) == CHOOSE i \in S : Cardinality({j \in S : j < i}) = k - 1

\* C15: of a JSON array of records the account contributes, in order, one
\* event per object that has an id or an eventId, its id the first non-empty
\* of the two; records without both are not among the events and not counted,
\* in the loop and in the state document.
C15_MissingIdentityDropped ==
  (JustParsed /\ raw_out.embedded.t = "list") =>
    LET arr == raw_out.embedded.v
        keep == Identified(arr)
        account == accounts[idx - 1]
    IN /\ Len(Contributed) = Cardinality(keep)
       /\ per_account[account] = Cardinality(keep)
       /\ \A k \in 1..Len(Contributed) :
            LET raw == arr[Nth(keep, k)]
            IN Contributed[k].id = (IF raw.id # "" THEN raw.id ELSE raw.eventId)
       /\ Built =>
            /\ Cardinality({k \in 1..Len(state.events) : state.events[k].account = account})
                 = Cardinality(keep)
            /\ state.stats.per_account_count[account] = Cardinality(keep)
            /\ \A k \in 1..Len(state.events) : state.events[k].id # ""

\* An array of a record without identity and a record with both candidates:
\* the state document holds one event, under the record's id.
C15_Witness ==
  /\ JustParsed /\ raw_out.embedded.t = "list" /\ Built
  /\ raw_out.embedded.v = <<RawEvent("", "", 1), RawEvent("e1", "e3", 2)>>
  /\ Len(state.events) = 1 /\ state.events[1].id = "e1"

\* A record with an `id` that is a non-empty string.
HasId(r) == IF "id" \in DOMAIN r THEN r.id # "" ELSE FALSE

\* The records of the state document.
Records ==
  CASE conn = "gcal" -> Range(state.events)
    [] conn = "github" -> Range(state.notifications) \cup Range(state.items)
    [] conn = "gmail" -> Range(state.threads)
    [] conn = "linear" -> Range(state.issues)

\* C16: every record of a state document has a non-empty id.
C16_RecordsHaveId == Built => \A r \in Records : HasId(r)

\* The state document names the source a failed command belongs to: it has
\* notifications_error for /notifications and the items_error keys
\* "prs:<login>" and "tracked:<repo>"; it has no place for `gh auth status`.
ErrorEntryFor(cmd) ==
  CASE cmd[2] = "api /notifications" -> state.notifications_error # None
    [] cmd[2] = "api graphql" -> <<"prs", cmd[3]>> \in DOMAIN state.items_error
    [] cmd[2] \in {"pr list", "issue list"} -> <<"tracked", cmd[3]>> \in DOMAIN state.items_error
    [] OTHER -> FALSE

\* C17: in github, a command after `gh api user` that exited non-zero does
\* not end the run (unless a later command is not found, a run that ended
\* has built its state document, and once the document is written completely
\* it ended with a result event and status 0), and the state document has an
\* error entry for the command's source.
C17_LocalErrorsAbsorbed ==
  conn = "github" =>
    \A i \in 2..Len(invoked) :
      invoked[i].k = "failed" =>
        /\ (Exited /\ invoked[Len(invoked)].k # "notfound") => Built
        /\ (Exited /\ file.gen = "new" /\ Complete(file)) =>
             (exit_status = 0 /\ Last.type = "result" /\ Last.ok)
        /\ Built => ErrorEntryFor(invoked[i].cmd)

\* The rows of a table that have at least 4 columns and a non-empty first
\* column.
FullRows(rows) == SelectSeq(rows, LAMBDA r : r.ncols >= 4 /\ r.id # "")

\* C18: in gcal, when an account's output is a table under the
\* ID/START/END/SUMMARY header, every row with at least 4 columns and a
\* non-empty first column becomes an event of that account, in row order,
\* whatever text the fields hold (text that decodes as JSON included).
C18_TableRowsBecomeEvents ==
  (JustParsed /\ raw_out.table.t = "list") =>
    /\ Len(Contributed) = Len(FullRows(raw_out.table.v))
    /\ \A k \in 1..Len(Contributed) :
         Contributed[k] =
           Event(FullRows(raw_out.table.v)[k].id, FullRows(raw_out.table.v)[k].start,
                 accounts[idx - 1])

\* The elements of a JSON array that are objects with a thread id.
WithThreadId(arr) == SelectSeq(arr, LAMBDA e : e.t = "str" /\ e.v # "")

\* The array a JSON value gives its threads from: the value itself, or the
\* first of an object's `threads`, `results`, `messages` that is an array;
\* empty when the object has none.
ThreadArray(j) ==
  CASE j.t = "list" -> j.v
    [] j.threads.t = "list" -> j.threads.v
    [] j.results.t = "list" -> j.results.v
    [] j.messages.t = "list" -> j.messages.v
    [] OTHER -> <<>>

\* C19: in gmail, when the output as a whole is a JSON value, the threads are
\* exactly the elements of its array (the value itself, or an object's
\* threads/results/messages) that are objects with a thread id, in order; an
\* object whose array is empty or absent gives no thread.
C19_JsonNeverFreeform ==
  (conn = "gmail" /\ Built /\ raw_out.json # None) =>
    /\ Len(state.threads) = Len(WithThreadId(ThreadArray(raw_out.json)))
    /\ \A k \in 1..Len(state.threads) :
         state.threads[k] = Thread(WithThreadId(ThreadArray(raw_out.json))[k].v)

\* The issue header lines of an output, in output order.
Headers(out) == SelectSeq(out, LAMBDA l : l.kind = "header")

\* C20: in linear, parse_issues_text returns exactly one issue per issue
\* header line of the output, in output order, also when two issue blocks are
\* not separated by a blank line.
C20_OneIssuePerHeader ==
  (conn = "linear" /\ Built) =>
    /\ Len(state.issues) = Len(Headers(raw_out))
    /\ \A k \in 1..Len(state.issues) :
         state.issues[k].identifier = Headers(raw_out)[k].id

====
